---- MODULE Spec2Model ----
(***************************************************************************)
(* The text editor component (TextEditor) and its PNG export               *)
(* (downloadAsPNG): editor state, style mutators, greedy word wrap,        *)
(* per-line placement, the canvas context the export draws on, and the    *)
(* asynchronous toBlob callback that saves the file.                       *)
(*                                                                         *)
(* Strings that the code splits, trims or measures are sequences of        *)
(* one-character strings.  Coordinates that the code computes in floating  *)
(* point are exact fractions <<numerator, denominator>> in lowest terms.   *)
(***************************************************************************)
EXTENDS Integers, Sequences, FiniteSets, TLC

VARIABLES
  text,              \* useState("")            the document
  title,             \* useState("")            the image title
  style,             \* useState<TextStyle>     the style descriptor
  mounted,           \* canvasRef.current is an element (not null)
  has2d,             \* canvas.getContext("2d") returns a context (not null)
  devicePixelRatio,  \* window.devicePixelRatio (0 stands for a falsy value)
  metrics,           \* which glyph table the host's measureText uses
  canvas,            \* the hidden canvas: width, height, style size, bitmap
  ctx,               \* the 2D context's drawing state
  pending,           \* toBlob callbacks requested and not yet invoked
  saved,             \* files handed to the browser's download (a.click()), each
                     \* with the title its trigger read and the title at the save
  blob,              \* what the encoder gave the most recent callback
  last,              \* observation of the most recent downloadAsPNG call
  prev,              \* observation of the call before it
  steps              \* event handlers run so far

vars == <<text, title, style, mounted, has2d, devicePixelRatio, metrics,
          canvas, ctx, pending, saved, blob, last, prev, steps>>

(***************************************************************************)
(* Bounds of the model.                                                    *)
(***************************************************************************)
MaxLen == 3        \* longest generated document, in characters
MaxSteps == 4      \* event handlers per behaviour of the interactive spec
MaxExports == 1    \* exports per behaviour of the layout spec

(***************************************************************************)
(* Program constants.                                                      *)
(***************************************************************************)
fixedWidth == 600
padding == 1
availableWidth == fixedWidth - padding * 2
MinFontSize == 8
MaxFontSize == 72
InitFontSize == 11
InitCanvasWidth == 800
InitCanvasHeight == 600

Aligns == {"left", "center", "right", "justify"}
ToggleProps == {"bold", "italic", "underline"}
Deltas == {1, -1}

(***************************************************************************)
(* Exact fractions.                                                        *)
(***************************************************************************)
Abs(n) == IF n < 0 THEN -n ELSE n

RECURSIVE GCD(_, _)
GCD(a, b) == IF b = 0 THEN a ELSE GCD(b, a % b)

Frac(n, d) == LET g == GCD(Abs(n), d) IN <<n \div g, d \div g>>

FInt(n) == <<n, 1>>

FAdd(p, q) == Frac(p[1] * q[2] + q[1] * p[2], p[2] * q[2])

FSub(p, q) == Frac(p[1] * q[2] - q[1] * p[2], p[2] * q[2])

FMulInt(p, k) == Frac(p[1] * k, p[2])

\* Assigning a number to canvas.width / canvas.height keeps its integer part.
Trunc(p) == p[1] \div p[2]

Min(S) == CHOOSE x \in S : \A y \in S : x <= y

Max(S) == CHOOSE x \in S : \A y \in S : x >= y

(***************************************************************************)
(* JavaScript string operations.                                           *)
(***************************************************************************)
Whitespace == {" ", "\t", "\n"}

Alphabet == {"a", "B", " ", "\t", "\n"}

\* s.trim() === ""
IsBlank(s) == \A i \in 1..Len(s) : s[i] \in Whitespace

\* s.trim()
Trim(s) ==
  LET keep == {i \in 1..Len(s) : s[i] \notin Whitespace}
  IN IF keep = {} THEN <<>> ELSE SubSeq(s, Min(keep), Max(keep))

\* s.split(c) for a one-character separator
RECURSIVE Split(_, _)
Split(s, c) ==
  LET at == {i \in 1..Len(s) : s[i] = c}
  IN IF at = {} THEN <<s>>
     ELSE <<SubSeq(s, 1, Min(at) - 1)>> \o Split(SubSeq(s, Min(at) + 1, Len(s)), c)

\* s.split(/\s+/)
RECURSIVE SplitWS(_)
SplitWS(s) ==
  LET at == {i \in 1..Len(s) : s[i] \in Whitespace}
  IN IF at = {} THEN <<s>>
     ELSE LET i == Min(at)
              rest == {j \in (i + 1)..Len(s) : s[j] \notin Whitespace}
              j == IF rest = {} THEN Len(s) + 1 ELSE Min(rest)
          IN <<SubSeq(s, 1, i - 1)>> \o SplitWS(SubSeq(s, j, Len(s)))

(***************************************************************************)
(* The host's text measurement: ctx.measureText(s).width under ctx.font.   *)
(* A glyph table gives each character's advance per pixel of font size;    *)
(* bold glyphs are one unit wider.  Whitespace of any kind measures as a   *)
(* space.                                                                  *)
(***************************************************************************)
GlyphTables == {1, 2}

GlyphAdvance(m, c) ==
  IF c \in Whitespace THEN (IF m = 1 THEN 3 ELSE 5)
  ELSE IF c = "a" THEN (IF m = 1 THEN 10 ELSE 20)
  ELSE (IF m = 1 THEN 50 ELSE 55)

RECURSIVE measureText(_, _, _)
measureText(m, font, s) ==
  IF s = <<>> THEN 0
  ELSE (GlyphAdvance(m, Head(s)) + (IF font.bold THEN 1 ELSE 0)) * font.size
       + measureText(m, font, Tail(s))

(***************************************************************************)
(* Editor state and its mutators.                                          *)
(***************************************************************************)
InitStyle ==
  [bold |-> FALSE, italic |-> FALSE, underline |-> FALSE,
   fontSize |-> InitFontSize, color |-> "#737373", align |-> "left"]

Colors == {"#737373", "#ff0000"}

Titles == {"", "poem"}

\* setStyle((prev) => ({ ...prev, [property]: !prev[property] }))
ToggledStyle(st, property) == [st EXCEPT ![property] = ~st[property]]

\* setStyle((prev) => ({ ...prev, align }))
AlignedStyle(st, align) == [st EXCEPT !.align = align]

ClampNoUpperBound(n) == IF n < MinFontSize THEN MinFontSize ELSE n

\* Math.max(8, Math.min(72, n))
Clamp(n) ==
  LET capped == IF n > MaxFontSize THEN MaxFontSize ELSE n
  IN IF capped < MinFontSize THEN MinFontSize ELSE capped

\* setStyle((prev) => ({ ...prev, fontSize: Math.max(8, Math.min(72, prev.fontSize + delta)) }))
ResizedStyle(st, delta) == [st EXCEPT !.fontSize = Clamp(st.fontSize + delta)]

\* setStyle((prev) => ({ ...prev, color }))
ColoredStyle(st, color) == [st EXCEPT !.color = color]

(***************************************************************************)
(* The 2D context.  ctx.font is kept as the fields of the font shorthand   *)
(* the code composes: `${italic}${bold}${fontSize}px <family>`.            *)
(***************************************************************************)
ComposedFont(st) ==
  [italic |-> st.italic, bold |-> st.bold, size |-> st.fontSize,
   family |-> "system-ui, -apple-system, sans-serif"]

\* A context's state when created and after its canvas is resized.
DefaultCtx ==
  [font |-> [italic |-> FALSE, bold |-> FALSE, size |-> 10, family |-> "sans-serif"],
   fillStyle |-> "#000000", textBaseline |-> "alphabetic", scale |-> 1,
   strokeStyle |-> "#000000", lineWidth |-> 1]

InitCanvas ==
  [width |-> InitCanvasWidth, height |-> InitCanvasHeight,
   styleWidth |-> <<0, 1>>, styleHeight |-> <<0, 1>>, bitmap |-> <<>>]

\* One call on the canvas or its context, with the drawing state in force.
Op(kind, txt, x, y, cx) == [op |-> kind, text |-> txt, x |-> x, y |-> y, ctx |-> cx]

\* A call that takes no text and no coordinates.
Call(kind, cx) == Op(kind, <<>>, <<0, 1>>, <<0, 1>>, cx)

Zero == <<0, 1>>

DrawKinds == {"fillText", "stroke"}

ParamKinds == {"font", "fillStyle", "textBaseline"}

ResizeKinds == {"width", "height"}

(***************************************************************************)
(* Word wrap (downloadAsPNG, the wrappedLines loop).                       *)
(***************************************************************************)
\* text.split("\n").filter((line) => line.trim() !== "")
NonBlankLines(txt) == SelectSeq(Split(txt, "\n"), LAMBDA line : ~IsBlank(line))

WrapWordKeepGrowing(m, font, acc, word) ==
  LET testLine == IF acc.currentLine # <<>> THEN acc.currentLine \o <<" ">> \o word ELSE word
  IN [acc EXCEPT !.currentLine = testLine]

\* The body of words.forEach((word) => ...): acc is (currentLine, wrappedLines).
WrapWord(m, font, acc, word) ==
  LET testLine == IF acc.currentLine # <<>> THEN acc.currentLine \o <<" ">> \o word ELSE word
      testWidth == measureText(m, font, testLine)
  IN IF testWidth <= availableWidth
     THEN [acc EXCEPT !.currentLine = testLine]
     ELSE IF acc.currentLine # <<>>
          THEN [currentLine |-> word, wrappedLines |-> Append(acc.wrappedLines, acc.currentLine)]
          ELSE [acc EXCEPT !.wrappedLines = Append(acc.wrappedLines, word)]

RECURSIVE WrapWords(_, _, _, _)
WrapWords(m, font, acc, words) ==
  IF words = <<>> THEN acc
  ELSE WrapWords(m, font, WrapWord(m, font, acc, Head(words)), Tail(words))

\* The body of lines.forEach((line) => ...).
WrapLine(m, font, wrappedLines, line) ==
  IF IsBlank(line) THEN wrappedLines
  ELSE LET acc == WrapWords(m, font, [currentLine |-> <<>>, wrappedLines |-> wrappedLines],
                            Split(line, " "))
       IN IF acc.currentLine # <<>> THEN Append(acc.wrappedLines, acc.currentLine)
          ELSE acc.wrappedLines

RECURSIVE WrapLines(_, _, _, _)
WrapLines(m, font, wrappedLines, lines) ==
  IF lines = <<>> THEN wrappedLines
  ELSE WrapLines(m, font, WrapLine(m, font, wrappedLines, Head(lines)), Tail(lines))

(***************************************************************************)
(* Per-line placement and drawing (downloadAsPNG, wrappedLines.forEach).   *)
(***************************************************************************)
\* const lineHeight = style.fontSize * 1.5
LineHeight(fontSize) == Frac(fontSize * 3, 2)

\* wrappedLines.length * lineHeight - (lineHeight - style.fontSize)
TextHeight(n, fontSize) ==
  FSub(FMulInt(LineHeight(fontSize), n), FSub(LineHeight(fontSize), FInt(fontSize)))

\* const y = startY + index * lineHeight          (index counts from 0)
LineY(index, fontSize) == FAdd(FInt(padding), FMulInt(LineHeight(fontSize), index))

\* if (style.underline) { beginPath; moveTo; lineTo; strokeStyle; lineWidth; stroke }
UnderlineOps(cx, st, x, width, y) ==
  IF st.underline
  THEN LET uy == FAdd(y, FInt(st.fontSize + 2))
           cx1 == [cx EXCEPT !.strokeStyle = st.color]
           cx2 == [cx1 EXCEPT !.lineWidth = 1]
       IN [ops |-> << Call("beginPath", cx),
                      Op("moveTo", <<>>, x, uy, cx),
                      Op("lineTo", <<>>, FAdd(x, FInt(width)), uy, cx),
                      Call("strokeStyle", cx1),
                      Call("lineWidth", cx2),
                      Op("stroke", <<>>, x, uy, cx2) >>,
           ctx |-> cx2]
  ELSE [ops |-> <<>>, ctx |-> cx]

JustifyEligibleAnyLine(st, line, index, n) == st.align = "justify" /\ ~IsBlank(line)

\* style.align === "justify" && line.trim() && index < wrappedLines.length - 1
JustifyEligible(st, line, index, n) ==
  st.align = "justify" /\ ~IsBlank(line) /\ index < n - 1

RECURSIVE SumWidths(_, _, _)
\* words.reduce((sum, word) => sum + ctx.measureText(word).width, 0)
SumWidths(m, font, words) ==
  IF words = <<>> THEN 0
  ELSE measureText(m, font, Head(words)) + SumWidths(m, font, Tail(words))

SpaceWidthPerWord(totalSpaceWidth, wordCount) == Frac(totalSpaceWidth, wordCount)

\* const spaceWidth = totalSpaceWidth / (words.length - 1)
SpaceWidth(totalSpaceWidth, wordCount) == Frac(totalSpaceWidth, wordCount - 1)

RECURSIVE JustifyWords(_, _, _, _, _, _, _, _, _)
\* words.forEach((word, wordIndex) => ...): k is wordIndex + 1
JustifyWords(m, cx, st, words, k, currentX, y, spaceWidth, ops) ==
  IF k > Len(words) THEN [ops |-> ops, ctx |-> cx]
  ELSE LET word == words[k]
           u == UnderlineOps(cx, st, currentX, measureText(m, cx.font, word), y)
           nextX == IF k < Len(words)
                    THEN FAdd(currentX, FAdd(FInt(measureText(m, u.ctx.font, word)), spaceWidth))
                    ELSE currentX
       IN JustifyWords(m, u.ctx, st, words, k + 1, nextX, y, spaceWidth,
                       ops \o <<Op("fillText", word, currentX, y, cx)>> \o u.ops)

LineXRightNoPadding(align, textWidth) ==
  IF align = "center" THEN Frac(fixedWidth - textWidth, 2)
  ELSE IF align = "right" THEN FInt(fixedWidth - textWidth)
  ELSE FInt(padding)

\* let x = padding; center: (fixedWidth - textWidth) / 2; right: fixedWidth - textWidth - padding
LineX(align, textWidth) ==
  IF align = "center" THEN Frac(fixedWidth - textWidth, 2)
  ELSE IF align = "right" THEN FInt(fixedWidth - textWidth - padding)
  ELSE FInt(padding)

\* The body of wrappedLines.forEach((line, index) => ...): n is wrappedLines.length.
DrawLine(m, cx, st, line, index, n) ==
  LET y == LineY(index, st.fontSize)
  IN IF JustifyEligible(st, line, index, n)
     THEN LET words == SplitWS(Trim(line))
          IN IF Len(words) > 1
             THEN LET totalTextWidth == SumWidths(m, cx.font, words)
                      totalSpaceWidth == availableWidth - totalTextWidth
                      spaceWidth == SpaceWidth(totalSpaceWidth, Len(words))
                  IN JustifyWords(m, cx, st, words, 1, FInt(padding), y, spaceWidth, <<>>)
             ELSE LET u == UnderlineOps(cx, st, FInt(padding),
                                        measureText(m, cx.font, line), y)
                  IN [ops |-> <<Op("fillText", line, FInt(padding), y, cx)>> \o u.ops,
                      ctx |-> u.ctx]
     ELSE LET textWidth == measureText(m, cx.font, line)
              x == LineX(st.align, textWidth)
              u == UnderlineOps(cx, st, x, textWidth, y)
          IN [ops |-> <<Op("fillText", line, x, y, cx)>> \o u.ops, ctx |-> u.ctx]

RECURSIVE DrawLines(_, _, _, _, _, _)
DrawLines(m, cx, st, wrappedLines, index, ops) ==
  IF index >= Len(wrappedLines) THEN [ops |-> ops, ctx |-> cx]
  ELSE LET d == DrawLine(m, cx, st, wrappedLines[index + 1], index, Len(wrappedLines))
       IN DrawLines(m, d.ctx, st, wrappedLines, index + 1, ops \o d.ops)

(***************************************************************************)
(* downloadAsPNG: the synchronous handler.                                 *)
(***************************************************************************)
\* const dpr = window.devicePixelRatio || 1
Dpr(raw) == IF raw = 0 THEN 1 ELSE raw

FontNotSet(cx, st) == cx

\* ctx.font = `${italic}${bold}${fontSize}px system-ui, -apple-system, sans-serif`
\* before measuring (the first assignment).
MeasureFont(cx, st) == [cx EXCEPT !.font = ComposedFont(st)]

\* The same assignment after the resize (the second one).
DrawFont(cx, st) == [cx EXCEPT !.font = ComposedFont(st)]

ResizedCtxKept(cx) == cx

\* Assigning canvas.width or canvas.height resets the context to its default
\* state and clears the bitmap.
ResizedCtx(cx) == DefaultCtx

Result(cv, cx, outcome, wrappedLines, ops, requests) ==
  [canvas |-> cv, ctx |-> cx, outcome |-> outcome, wrappedLines |-> wrappedLines,
   ops |-> ops, requests |-> requests]

\* What one call of downloadAsPNG does to the canvas and the context, the
\* calls it makes in order, and the toBlob request it leaves (at most one).
Export(cv, cx, txt, st, ttl, rawDpr, m, isMounted, ctxOk) ==
  IF ~isMounted THEN Result(cv, cx, "noCanvas", <<>>, <<>>, <<>>)
  ELSE IF ~ctxOk THEN Result(cv, cx, "noContext", <<>>, <<>>, <<>>)
  ELSE
    LET dpr == Dpr(rawDpr)
        cx1 == MeasureFont(cx, st)
        op1 == <<Call("font", cx1)>>
        lines == NonBlankLines(txt)
    IN
    IF lines = <<>>
    THEN Result(cv, cx1, "empty", <<>>, op1, <<>>)
    ELSE
      LET wrappedLines == WrapLines(m, cx1.font, <<>>, lines)
          textHeight == TextHeight(Len(wrappedLines), st.fontSize)
          canvasWidth == FInt(fixedWidth * dpr)
          canvasHeight == FMulInt(FAdd(textHeight, FInt(padding * 2)), dpr)
          cx2 == ResizedCtx(cx1)
          cx3 == ResizedCtx(cx2)
          cx4 == [cx3 EXCEPT !.scale = @ * dpr]
          cx5 == DrawFont(cx4, st)
          cx6 == [cx5 EXCEPT !.fillStyle = st.color]
          cx7 == [cx6 EXCEPT !.textBaseline = "top"]
          drawn == DrawLines(m, cx7, st, wrappedLines, 0, <<>>)
          cv1 == [width |-> Trunc(canvasWidth), height |-> Trunc(canvasHeight),
                  styleWidth |-> FInt(fixedWidth),
                  styleHeight |-> FAdd(textHeight, FInt(padding * 2)),
                  bitmap |-> SelectSeq(drawn.ops, LAMBDA o : o.op \in DrawKinds)]
          ops == op1
                 \o << Op("width", <<>>, canvasWidth, Zero, cx2),
                       Op("height", <<>>, Zero, canvasHeight, cx3),
                       Op("scale", <<>>, FInt(dpr), FInt(dpr), cx4),
                       Op("clearRect", <<>>, FInt(fixedWidth),
                          FAdd(textHeight, FInt(padding * 2)), cx4),
                       Call("font", cx5),
                       Call("fillStyle", cx6),
                       Call("textBaseline", cx7) >>
                 \o drawn.ops
                 \o <<Call("toBlob", drawn.ctx)>>
      IN Result(cv1, drawn.ctx, "encoding", wrappedLines, ops,
                <<[title |-> ttl,
                   image |-> [width |-> cv1.width, height |-> cv1.height,
                              bitmap |-> cv1.bitmap]]>>)

\* What is recorded of one call: its inputs, what it did, and the canvas
\* size before and after.
Observed(r, cv, txt, st, ttl) ==
  [text |-> txt, style |-> st, title |-> ttl, outcome |-> r.outcome,
   wrappedLines |-> r.wrappedLines, ops |-> r.ops,
   before |-> <<cv.width, cv.height>>,
   after |-> <<r.canvas.width, r.canvas.height>>,
   requests |-> Len(r.requests)]

NoCall ==
  [text |-> <<>>, style |-> InitStyle, title |-> "", outcome |-> "none",
   wrappedLines |-> <<>>, ops |-> <<>>,
   before |-> <<InitCanvasWidth, InitCanvasHeight>>,
   after |-> <<InitCanvasWidth, InitCanvasHeight>>, requests |-> 0]

Env == <<mounted, has2d, devicePixelRatio, metrics>>

downloadAsPNG ==
  /\ LET r == Export(canvas, ctx, text, style, title, devicePixelRatio, metrics,
                     mounted, has2d)
     IN /\ canvas' = r.canvas
        /\ ctx' = r.ctx
        /\ pending' = pending \o r.requests
        /\ last' = Observed(r, canvas, text, style, title)
        /\ prev' = last
  /\ UNCHANGED <<text, title, style, saved, blob, Env>>

(***************************************************************************)
(* The toBlob callback.                                                    *)
(***************************************************************************)
\* a.download = title ? `${title}.png` : "text-editor-export.png"
FileName(ttl) == IF ttl # "" THEN ttl \o ".png" ELSE "text-editor-export.png"

SavesAlways(b) == TRUE

\* if (blob) { ... a.click() ... }
Saves(b) == b # "null"

DownloadNameNow(closureTitle, currentTitle) == FileName(currentTitle)

\* The callback closes over the title of the render that made the request.
DownloadName(closureTitle, currentTitle) == FileName(closureTitle)

Encoded == {"null", "data"}

toBlobCallback(i, b) ==
  /\ i \in 1..Len(pending)
  /\ pending' = SubSeq(pending, 1, i - 1) \o SubSeq(pending, i + 1, Len(pending))
  /\ blob' = b
  /\ saved' = IF Saves(b)
              THEN Append(saved, [name |-> DownloadName(pending[i].title, title),
                                  image |-> pending[i].image,
                                  title |-> pending[i].title,
                                  titleAtSave |-> title])
              ELSE saved
  /\ UNCHANGED <<text, title, style, canvas, ctx, last, prev, Env>>

(***************************************************************************)
(* The editor's other handlers.                                            *)
(***************************************************************************)
setText(value) ==
  /\ text' = value
  /\ UNCHANGED <<title, style, canvas, ctx, pending, saved, blob, last, prev, Env>>

setTitle(value) ==
  /\ title' = value
  /\ UNCHANGED <<text, style, canvas, ctx, pending, saved, blob, last, prev, Env>>

toggleStyle(property) ==
  /\ style' = ToggledStyle(style, property)
  /\ UNCHANGED <<text, title, canvas, ctx, pending, saved, blob, last, prev, Env>>

setAlignment(align) ==
  /\ style' = AlignedStyle(style, align)
  /\ UNCHANGED <<text, title, canvas, ctx, pending, saved, blob, last, prev, Env>>

changeFontSize(delta) ==
  /\ style' = ResizedStyle(style, delta)
  /\ UNCHANGED <<text, title, canvas, ctx, pending, saved, blob, last, prev, Env>>

changeColor(color) ==
  /\ style' = ColoredStyle(style, color)
  /\ UNCHANGED <<text, title, canvas, ctx, pending, saved, blob, last, prev, Env>>

(***************************************************************************)
(* Inputs.                                                                 *)
(***************************************************************************)
DevicePixelRatios == {0, 2}

\* "a a\na", "\t B", "\n"
EditorDocs ==
  { <<"a", " ", "a", "\n", "a">>, <<"\t", " ", "B">>, <<"\n">> }

\* Every string of at most n characters.
Strings(n) == UNION {[1..k -> Alphabet] : k \in 0..n}

\* "a a\na", "a a a\na", "a a a", "a  a\nB", "a\ta B", "B \t B", "a a\na a", "a\tB\na"
ExtraDocs ==
  { <<"a", " ", "a", "\n", "a">>,
    <<"a", " ", "a", " ", "a", "\n", "a">>,
    <<"a", " ", "a", " ", "a">>,
    <<"a", " ", " ", "a", "\n", "B">>,
    <<"a", "\t", "a", " ", "B">>,
    <<"B", " ", "\t", " ", "B">>,
    <<"a", " ", "a", "\n", "a", " ", "a">>,
    <<"a", "\t", "B", "\n", "a">> }

Docs == Strings(MaxLen) \cup ExtraDocs

LayoutStyles ==
  {[InitStyle EXCEPT !.align = a, !.underline = u, !.bold = b] :
     a \in Aligns, u \in BOOLEAN, b \in BOOLEAN}

(***************************************************************************)
(* Spec: the editor from its initial state, any handler at any time.       *)
(***************************************************************************)
Tick == steps < MaxSteps /\ steps' = steps + 1

Fresh ==
  /\ canvas = InitCanvas
  /\ ctx = DefaultCtx
  /\ pending = <<>>
  /\ saved = <<>>
  /\ blob = "none"
  /\ last = NoCall
  /\ prev = NoCall
  /\ steps = 0

Host ==
  /\ mounted \in BOOLEAN
  /\ has2d \in (IF mounted THEN BOOLEAN ELSE {FALSE})
  /\ devicePixelRatio \in DevicePixelRatios
  /\ metrics \in GlyphTables

Init ==
  /\ text = <<>>
  /\ title = ""
  /\ style = InitStyle
  /\ Host
  /\ Fresh

Next ==
  \/ Tick /\ \E value \in EditorDocs : setText(value)
  \/ Tick /\ \E value \in Titles : setTitle(value)
  \/ Tick /\ \E property \in ToggleProps : toggleStyle(property)
  \/ Tick /\ \E align \in Aligns : setAlignment(align)
  \/ Tick /\ \E delta \in Deltas : changeFontSize(delta)
  \/ Tick /\ \E color \in Colors : changeColor(color)
  \/ Tick /\ downloadAsPNG
  \/ Tick /\ \E i \in 1..Len(pending), b \in Encoded : toBlobCallback(i, b)

Spec == Init /\ [][Next]_vars

(***************************************************************************)
(* SpecStyle: the style mutators alone, without a bound on their number.   *)
(***************************************************************************)
NextStyle ==
  \/ UNCHANGED steps /\ \E property \in ToggleProps : toggleStyle(property)
  \/ UNCHANGED steps /\ \E align \in Aligns : setAlignment(align)
  \/ UNCHANGED steps /\ \E delta \in Deltas : changeFontSize(delta)
  \/ UNCHANGED steps /\ \E color \in Colors : changeColor(color)

SpecStyle == Init /\ [][NextStyle]_vars

(***************************************************************************)
(* SpecLayout: one export of each document under each layout style.        *)
(***************************************************************************)
InitLayout ==
  /\ text \in Docs
  /\ title = ""
  /\ style \in LayoutStyles
  /\ mounted = TRUE
  /\ has2d = TRUE
  /\ devicePixelRatio \in DevicePixelRatios
  /\ metrics \in GlyphTables
  /\ Fresh

NextLayout == steps < MaxExports /\ steps' = steps + 1 /\ downloadAsPNG

SpecLayout == InitLayout /\ [][NextLayout]_vars

(***************************************************************************)
(* Vocabulary of the properties.                                           *)
(***************************************************************************)
\* The width of s under the font of the observed call's style.
WidthIn(obs, s) == measureText(metrics, ComposedFont(obs.style), s)

\* The fillText calls of the observed call on wrapped line i (from 0).
FillsAt(obs, i) ==
  SelectSeq(obs.ops, LAMBDA o : o.op = "fillText" /\ o.y = LineY(i, obs.style.fontSize))

\* The whitespace-separated words of s.
WordsIn(s) == IF IsBlank(s) THEN <<>> ELSE SplitWS(Trim(s))

RECURSIVE AllWords(_)
AllWords(lines) ==
  IF lines = <<>> THEN <<>> ELSE WordsIn(Head(lines)) \o AllWords(Tail(lines))

\* The elements of line.split(" ") over the document's lines.
SourceWords(txt) ==
  LET lines == Split(txt, "\n")
  IN UNION {{Split(lines[i], " ")[k] : k \in 1..Len(Split(lines[i], " "))} :
              i \in 1..Len(lines)}

Rendered(obs) == obs.outcome = "encoding"

LineIndexes(obs) == 0..(Len(obs.wrappedLines) - 1)

\* Wrapped line i of the call is one the justify branch stretches.
Stretched(obs, i) ==
  /\ obs.style.align = "justify"
  /\ i < Len(obs.wrappedLines) - 1
  /\ Len(WordsIn(obs.wrappedLines[i + 1])) > 1

(***************************************************************************)
(* C1  Wrap width bound: every wrapped line either measures at most        *)
(* availableWidth (598) under the export's font or is a single word, one   *)
(* element of a source line's split on a space.                            *)
(***************************************************************************)
WrapWidthBound ==
  Rendered(last) =>
    \A i \in LineIndexes(last) :
      LET line == last.wrappedLines[i + 1]
      IN \/ WidthIn(last, line) <= availableWidth
         \/ line \in SourceWords(last.text)

\* An export whose wrapped lines hold both a multi-word line within the width
\* and an oversized single word.
WrapWidthBoundWitness ==
  /\ Rendered(last)
  /\ \E i \in LineIndexes(last) :
       /\ WidthIn(last, last.wrappedLines[i + 1]) <= availableWidth
       /\ Len(WordsIn(last.wrappedLines[i + 1])) > 1
  /\ \E i \in LineIndexes(last) :
       /\ WidthIn(last, last.wrappedLines[i + 1]) > availableWidth
       /\ last.wrappedLines[i + 1] \in SourceWords(last.text)

(***************************************************************************)
(* C2  Wrap completeness: the words of the wrapped lines, in order, are    *)
(* the words of the document's non-blank lines, in order, and no wrapped   *)
(* line is empty or whitespace-only.                                       *)
(***************************************************************************)
WrapCompleteness ==
  Rendered(last) =>
    /\ AllWords(last.wrappedLines) = AllWords(Split(last.text, "\n"))
    /\ \A i \in LineIndexes(last) : ~IsBlank(last.wrappedLines[i + 1])

\* The part of C2 about the words alone.
WrapKeepsWords ==
  Rendered(last) => AllWords(last.wrappedLines) = AllWords(Split(last.text, "\n"))

(***************************************************************************)
(* C3  Justify full-span.  As claimed: on a stretched line the last word   *)
(* ends at maxWidth - padding, maxWidth being availableWidth.              *)
(***************************************************************************)
JustifySpanAsClaimed ==
  Rendered(last) =>
    \A i \in LineIndexes(last) :
      Stretched(last, i) =>
        LET fills == FillsAt(last, i)
            lastWord == fills[Len(fills)]
        IN FAdd(lastWord.x, FInt(WidthIn(last, lastWord.text)))
             = FInt(availableWidth - padding)

\* C3 as amended: on a stretched line the first word starts at padding and
\* the last word ends at availableWidth + padding, which is fixedWidth - padding.
JustifySpan ==
  Rendered(last) =>
    \A i \in LineIndexes(last) :
      Stretched(last, i) =>
        LET fills == FillsAt(last, i)
            lastWord == fills[Len(fills)]
        IN /\ fills[1].x = FInt(padding)
           /\ FAdd(lastWord.x, FInt(WidthIn(last, lastWord.text)))
                = FInt(availableWidth + padding)
           /\ availableWidth + padding = fixedWidth - padding

\* A stretched line of three words whose spacing is not a whole number.
JustifySpanWitness ==
  /\ Rendered(last)
  /\ \E i \in LineIndexes(last) :
       /\ Stretched(last, i)
       /\ Len(FillsAt(last, i)) = 3
       /\ FillsAt(last, i)[2].x[2] = 2

(***************************************************************************)
(* C4  Justify eligibility: under justify a wrapped line is drawn word by  *)
(* word from x = padding with one spacing between all its words exactly    *)
(* when it has more than one word and is not the last wrapped line; every  *)
(* other line is drawn as one string at x = padding.                       *)
(***************************************************************************)
\* The space between word k and word k + 1 of a line drawn word by word.
Gap(obs, fills, k) ==
  FSub(fills[k + 1].x, FAdd(fills[k].x, FInt(WidthIn(obs, fills[k].text))))

\* C4: word by word exactly on multi-word lines that are not the last.
JustifyEligibility ==
  (Rendered(last) /\ last.style.align = "justify") =>
    \A i \in LineIndexes(last) :
      LET line == last.wrappedLines[i + 1]
          fills == FillsAt(last, i)
      IN IF Stretched(last, i)
         THEN /\ Len(fills) > 1
              /\ [k \in 1..Len(fills) |-> fills[k].text] = WordsIn(line)
              /\ fills[1].x = FInt(padding)
              /\ \A k \in 1..(Len(fills) - 1) :
                   Gap(last, fills, k) = Gap(last, fills, 1)
         ELSE /\ Len(fills) = 1
              /\ fills[1].text = line
              /\ fills[1].x = FInt(padding)

\* A justified export with a stretched line whose last line has several
\* words and is drawn whole.
JustifyEligibilityWitness ==
  /\ Rendered(last)
  /\ last.style.align = "justify"
  /\ Len(last.wrappedLines) > 1
  /\ Stretched(last, 0)
  /\ Len(WordsIn(last.wrappedLines[Len(last.wrappedLines)])) > 1
  /\ Len(FillsAt(last, Len(last.wrappedLines) - 1)) = 1

(***************************************************************************)
(* C5  Left/right symmetry.  As claimed: the x of a line under left plus   *)
(* its x under right is fixedWidth - measure(line) - 2 * padding.          *)
(***************************************************************************)
\* The previous export drew the document left-aligned and the last one drew
\* the same document, otherwise in the same style, right-aligned.
LeftThenRight ==
  /\ Rendered(prev)
  /\ Rendered(last)
  /\ prev.text = last.text
  /\ prev.style.align = "left"
  /\ last.style = [prev.style EXCEPT !.align = "right"]

SymmetryAsClaimed ==
  LeftThenRight =>
    \A i \in LineIndexes(last) :
      FAdd(FillsAt(prev, i)[1].x, FillsAt(last, i)[1].x)
        = FInt(fixedWidth - WidthIn(last, last.wrappedLines[i + 1]) - 2 * padding)

\* C5 as amended: the two offsets sum to fixedWidth - measure(line); the left
\* margin of the one equals the right margin of the other.
Symmetry ==
  LeftThenRight =>
    /\ prev.wrappedLines = last.wrappedLines
    /\ \A i \in LineIndexes(last) :
         LET w == WidthIn(last, last.wrappedLines[i + 1])
             xLeft == FillsAt(prev, i)[1].x
             xRight == FillsAt(last, i)[1].x
         IN /\ Len(FillsAt(prev, i)) = 1
            /\ Len(FillsAt(last, i)) = 1
            /\ FAdd(xLeft, xRight) = FInt(fixedWidth - w)
            /\ xLeft = FSub(FInt(fixedWidth), FAdd(xRight, FInt(w)))

SymmetryWitness ==
  /\ LeftThenRight
  /\ Len(last.wrappedLines) > 1

(***************************************************************************)
(* C6  Export outcome: a trigger requests an encoding exactly when the     *)
(* canvas and its context exist and the document has a non-blank line; a   *)
(* file is saved exactly when a requested encoding returns data, one file  *)
(* at most per request, named "{title}.png" or the default name; without   *)
(* a canvas or with an empty document the canvas keeps its size.           *)
(***************************************************************************)
HasNonBlankLine(txt) == \E i \in 1..Len(txt) : txt[i] \notin Whitespace

ExportOutcomeState ==
  last.outcome # "none" =>
    /\ last.requests \in {0, 1}
    /\ last.requests = 1 <=> (mounted /\ has2d /\ HasNonBlankLine(last.text))
    /\ (~mounted \/ ~HasNonBlankLine(last.text)) => last.after = last.before

ExportOutcomeStep ==
  /\ Len(pending') <= Len(pending) + 1
  /\ Len(pending') = Len(pending) + 1 => (last'.requests = 1 /\ saved' = saved)
  /\ Len(saved') \in {Len(saved), Len(saved) + 1}
  /\ Len(saved') = Len(saved) + 1 <=> (Len(pending') = Len(pending) - 1 /\ blob' = "data")
  /\ Len(saved') = Len(saved) + 1 =>
       LET file == saved'[Len(saved')]
       IN /\ SubSeq(saved', 1, Len(saved)) = saved
          /\ file.title # "" => file.name = file.title \o ".png"
          /\ file.title = "" => file.name = "text-editor-export.png"
          /\ \E i \in 1..Len(pending) : pending[i].title = file.title

\* C6: the outcome of every trigger and of every callback.
ExportOutcome == []ExportOutcomeState /\ [][ExportOutcomeStep]_vars

\* A titled export has been saved under its title.
ExportOutcomeWitness ==
  /\ Len(saved) = 1
  /\ saved[1].name = "poem.png"

(***************************************************************************)
(* C7  Run-to-completion.  As claimed: from the start of an export to the  *)
(* hand-off of its file no other user action is processed: while a toBlob  *)
(* request is in flight the text, the style and the title do not change    *)
(* and no other export runs.                                               *)
(***************************************************************************)
NoActionWhileEncoding ==
  pending # <<>> =>
    /\ text' = text
    /\ style' = style
    /\ title' = title
    /\ last' = last

\* C7 as claimed: no user action between the trigger and the hand-off.
RunToCompletionAsClaimed == [][NoActionWhileEncoding]_vars

\* C7 as amended: measuring, wrapping, layout, rasterizing and the toBlob
\* request happen in one step of the handler, in which no editor state
\* changes; the save happens in a later callback, and the user actions
\* processed in between change neither the requests in flight nor the files
\* saved: a file carries the bitmap drawn and the title read by its trigger.
HandlerStep ==
  last' # last =>
    /\ text' = text /\ style' = style /\ title' = title /\ saved' = saved
    /\ last'.text = text /\ last'.style = style /\ last'.title = title
    /\ Rendered(last') =>
         /\ Len(pending') = Len(pending) + 1
         /\ SubSeq(pending', 1, Len(pending)) = pending
         /\ pending'[Len(pending')].title = title
         /\ pending'[Len(pending')].image.bitmap = canvas'.bitmap
         /\ canvas'.bitmap =
              SelectSeq(last'.ops, LAMBDA o : o.op \in DrawKinds)

UserStep ==
  (text' # text \/ style' # style \/ title' # title) =>
    /\ pending' = pending
    /\ saved' = saved
    /\ canvas' = canvas

SaveStep ==
  saved' # saved =>
    \E i \in 1..Len(pending) :
      /\ saved' = Append(saved, [name |-> FileName(pending[i].title),
                                 image |-> pending[i].image,
                                 title |-> pending[i].title,
                                 titleAtSave |-> title])
      /\ pending' = SubSeq(pending, 1, i - 1) \o SubSeq(pending, i + 1, Len(pending))
      /\ text' = text /\ style' = style /\ title' = title /\ last' = last

\* C7 as amended: the handler step is atomic, the save is a later step, and
\* steps in between leave the requested file as its trigger determined it.
RunToCompletion == [][HandlerStep /\ UserStep /\ SaveStep]_vars

\* A file was saved after the title was edited while its encoding was in
\* flight: the file has the name of the title its trigger read.
RunToCompletionWitness ==
  /\ Len(saved) = 1
  /\ saved[1].title = ""
  /\ saved[1].titleAtSave = "poem"
  /\ saved[1].name = "text-editor-export.png"

(***************************************************************************)
(* C8  Idempotence: an export's canvas size, calls (with the font, colour, *)
(* baseline and scale in force at each) and wrapped lines are those the    *)
(* same text, style and title give on a canvas never used before, so two   *)
(* exports of the same input agree whatever ran in between; and a saved    *)
(* file's name depends on its trigger's title alone.                       *)
(***************************************************************************)
OnFreshCanvas(obs) ==
  Export(InitCanvas, DefaultCtx, obs.text, obs.style, obs.title,
         devicePixelRatio, metrics, TRUE, TRUE)

\* The calls of a sequence as the output shows them: a drawing call with the
\* font, colours, baseline and scale in force, any other call with its
\* arguments.
Calls(ops) ==
  [k \in 1..Len(ops) |->
     IF ops[k].op \in DrawKinds THEN ops[k]
     ELSE Op(ops[k].op, ops[k].text, ops[k].x, ops[k].y, DefaultCtx)]

SameOutput(a, b) ==
  /\ a.outcome = b.outcome
  /\ Calls(a.ops) = Calls(b.ops)
  /\ a.wrappedLines = b.wrappedLines
  /\ a.after = b.after

\* C8: equal inputs give equal output whatever the canvas was used for before.
Idempotence ==
  /\ Rendered(last) =>
       LET r == OnFreshCanvas(last)
       IN /\ Calls(last.ops) = Calls(r.ops)
          /\ last.wrappedLines = r.wrappedLines
          /\ last.after = <<r.canvas.width, r.canvas.height>>
          /\ canvas.bitmap = r.canvas.bitmap
          /\ ctx = r.ctx
  /\ (Rendered(last) /\ Rendered(prev) /\ prev.text = last.text
        /\ prev.style = last.style /\ prev.title = last.title)
       => SameOutput(prev, last)
  /\ \A i, j \in 1..Len(saved) :
       saved[i].title = saved[j].title => saved[i].name = saved[j].name

\* Two exports of one input on the same canvas, the second after the first
\* left its font, transform and size behind.
IdempotenceWitness ==
  /\ Rendered(last)
  /\ Rendered(prev)
  /\ prev.text = last.text /\ prev.style = last.style /\ prev.title = last.title
  /\ last.before # <<InitCanvasWidth, InitCanvasHeight>>
  /\ devicePixelRatio = 2

(***************************************************************************)
(* C9  Font-size invariant: style.fontSize is an integer in [8, 72];       *)
(* changeFontSize at a bound leaves it unchanged; toggleStyle,             *)
(* setAlignment and changeColor never change it.                           *)
(***************************************************************************)
FontSizeInRange == style.fontSize \in MinFontSize..MaxFontSize

FontSizeStep ==
  /\ (changeFontSize(1) /\ style.fontSize = MaxFontSize) => style'.fontSize = MaxFontSize
  /\ (changeFontSize(-1) /\ style.fontSize = MinFontSize) => style'.fontSize = MinFontSize
  /\ ((\E property \in ToggleProps : toggleStyle(property))
        \/ (\E align \in Aligns : setAlignment(align))
        \/ (\E color \in Colors : changeColor(color)))
       => style'.fontSize = style.fontSize
  /\ style'.fontSize # style.fontSize =>
       \E delta \in Deltas : style' = [style EXCEPT !.fontSize = @ + delta]

\* C9: fontSize stays in [8, 72] and only changeFontSize moves it.
FontSizeInvariant == []FontSizeInRange /\ [][FontSizeStep]_vars

\* The size has been raised to the upper bound with other style fields changed.
FontSizeInvariantWitness ==
  /\ style.fontSize = MaxFontSize
  /\ style.bold
  /\ style.align = "justify"

(***************************************************************************)
(* C10  Resize before draw.  As claimed: no drawing parameter (font, fill  *)
(* colour, baseline) is set and nothing is drawn before the canvas is      *)
(* resized.                                                                *)
(***************************************************************************)
\* The positions in the call sequence of the calls of the given kinds.
Positions(obs, kinds) == {k \in 1..Len(obs.ops) : obs.ops[k].op \in kinds}

ResizeFirstAsClaimed ==
  Rendered(last) =>
    \A p \in Positions(last, ParamKinds \cup DrawKinds) :
      \A r \in Positions(last, ResizeKinds) : r < p

\* C10 as amended: the font is assigned once before the resize, for
\* measuring; the canvas is then resized to 600 * dpr by
\* (textHeight + 2 * padding) * dpr; font, fill colour and baseline are
\* assigned after the resize and before the first drawing call, and every
\* drawing call is made with them and the dpr scale in force.
ResizeFirst ==
  Rendered(last) =>
    LET ops == last.ops
        resizes == Positions(last, ResizeKinds)
        params == Positions(last, ParamKinds)
        draws == Positions(last, DrawKinds)
        n == Len(last.wrappedLines)
        dpr == Dpr(devicePixelRatio)
    IN /\ resizes = {2, 3}
       /\ ops[2].op = "width" /\ ops[2].x = FInt(fixedWidth * dpr)
       /\ ops[3].op = "height"
       /\ ops[3].y = FMulInt(FAdd(TextHeight(n, last.style.fontSize), FInt(2 * padding)), dpr)
       /\ {p \in params : p < 2} = {1}
       /\ ops[1].op = "font"
       /\ \A kind \in ParamKinds :
            \E p \in params : ops[p].op = kind /\ p > 3 /\ \A d \in draws : p < d
       /\ draws # {}
       /\ \A d \in draws :
            /\ ops[d].ctx.font = ComposedFont(last.style)
            /\ ops[d].ctx.fillStyle = last.style.color
            /\ ops[d].ctx.textBaseline = "top"
            /\ ops[d].ctx.scale = dpr

\* An underlined export: glyphs and strokes are drawn after the resize.
ResizeFirstWitness ==
  /\ Rendered(last)
  /\ \E d \in Positions(last, {"stroke"}) : d > 3
  /\ \E d \in Positions(last, {"fillText"}) : d > 3
  /\ Len(last.wrappedLines) > 1

====
